---- MODULE Spec2Model ----
(***************************************************************************)
(* commit-writer (main.go): a git diff is summarised by one model, the     *)
(* summary is restyled by a second model, and the result is printed and    *)
(* optionally written to a commit-message (hook) file.                     *)
(*                                                                         *)
(* Text is a sequence of character tokens.  A token is one byte of the Go  *)
(* string: letters are themselves ("a", "T", ":"), and the bytes that have *)
(* no printable form are named: "sp" space, "nl" \n, "cr" \r, "tab" \t,    *)
(* "dq" double quote, "sq" single quote, "bs" backslash, "bt" backtick,    *)
(* "bel" \a, "bksp" \b, "ff" \f, "vt" \v.                                  *)
(***************************************************************************)
EXTENDS Integers, Sequences, FiniteSets, TLC

----------------------------------------------------------------------------
(* strings package *)

\* unicode.IsSpace on the bytes above (strings.TrimSpace's cutset)
Whitespace == {"sp", "nl", "cr", "tab", "vt", "ff"}

RECURSIVE TrimLeft(_)
TrimLeft(s) ==
    IF s # <<>> /\ Head(s) \in Whitespace THEN TrimLeft(Tail(s)) ELSE s

RECURSIVE TrimRight(_)
TrimRight(s) ==
    IF s # <<>> /\ s[Len(s)] \in Whitespace
    THEN TrimRight(SubSeq(s, 1, Len(s) - 1))
    ELSE s

\* strings.TrimSpace
TrimSpace(s) == TrimRight(TrimLeft(s))

\* strings.HasPrefix, also used at an offset: does pat occur in s at index i
MatchAt(s, i, pat) ==
    /\ i + Len(pat) - 1 <= Len(s)
    /\ \A k \in 1..Len(pat) : s[i + k - 1] = pat[k]

HasPrefix(s, pat) == MatchAt(s, 1, pat)

\* strings.Index from position i: the first j >= i where pat occurs, 0 if none
RECURSIVE IndexFrom(_, _, _)
IndexFrom(s, i, pat) ==
    IF i + Len(pat) - 1 > Len(s) THEN 0
    ELSE IF MatchAt(s, i, pat) THEN i
    ELSE IndexFrom(s, i + 1, pat)

\* strings.ReplaceAll for a non-empty old: non-overlapping, left to right
RECURSIVE ReplaceFrom(_, _, _, _)
ReplaceFrom(s, i, old, new) ==
    IF i > Len(s) THEN <<>>
    ELSE IF MatchAt(s, i, old)
         THEN new \o ReplaceFrom(s, i + Len(old), old, new)
         ELSE <<s[i]>> \o ReplaceFrom(s, i + 1, old, new)

ReplaceAll(s, old, new) == ReplaceFrom(s, 1, old, new)

\* strings.Split(s, "\n"): the lines of s, at least one, possibly empty
RECURSIVE SplitFrom(_, _, _)
SplitFrom(s, i, cur) ==
    IF i > Len(s) THEN <<cur>>
    ELSE IF s[i] = "nl" THEN <<cur>> \o SplitFrom(s, i + 1, <<>>)
    ELSE SplitFrom(s, i + 1, Append(cur, s[i]))

SplitLines(s) == SplitFrom(s, 1, <<>>)

\* strings.Join(lines, "\n")
RECURSIVE JoinLines(_)
JoinLines(lines) ==
    IF lines = <<>> THEN <<>>
    ELSE IF Len(lines) = 1 THEN lines[1]
    ELSE lines[1] \o <<"nl">> \o JoinLines(Tail(lines))

\* strings.ToLower on the letters the model uses
LowerOf(c) ==
    CASE c = "T" -> "t"
      [] c = "I" -> "i"
      [] c = "L" -> "l"
      [] c = "E" -> "e"
      [] c = "B" -> "b"
      [] c = "O" -> "o"
      [] c = "D" -> "d"
      [] c = "Y" -> "y"
      [] OTHER -> c

ToLower(s) == [k \in 1..Len(s) |-> LowerOf(s[k])]

----------------------------------------------------------------------------
(* strconv.Unquote, as cleanModelOutput calls it *)

\* the single-character escapes of strconv.UnquoteChar
EscapeLetters == {"a", "b", "f", "n", "r", "t", "v"}

EscapeOf(c) ==
    CASE c = "a" -> "bel"
      [] c = "b" -> "bksp"
      [] c = "f" -> "ff"
      [] c = "n" -> "nl"
      [] c = "r" -> "cr"
      [] c = "t" -> "tab"
      [] c = "v" -> "vt"

\* strconv.UnquoteChar on in (non-empty): [ok, val, rem]
UnquoteChar(in, quote) ==
    LET c == Head(in) IN
    IF c = quote THEN [ok |-> FALSE, val |-> c, rem |-> in]
    ELSE IF c # "bs" THEN [ok |-> TRUE, val |-> c, rem |-> Tail(in)]
    ELSE IF Len(in) < 2 THEN [ok |-> FALSE, val |-> c, rem |-> in]
    ELSE LET e == in[2]
             rest == SubSeq(in, 3, Len(in))
         IN  IF e \in EscapeLetters
             THEN [ok |-> TRUE, val |-> EscapeOf(e), rem |-> rest]
             ELSE IF e = "bs"
             THEN [ok |-> TRUE, val |-> "bs", rem |-> rest]
             ELSE IF e \in {"sq", "dq"} /\ e = quote
             THEN [ok |-> TRUE, val |-> e, rem |-> rest]
             ELSE [ok |-> FALSE, val |-> c, rem |-> in]

\* the escape loop of strconv.unquote: in starts after the opening quote;
\* [ok, buf, in] where in is what is left when the loop stops
RECURSIVE UnquoteLoop(_, _, _)
UnquoteLoop(in, quote, buf) ==
    IF in = <<>> \/ Head(in) = quote THEN [ok |-> TRUE, buf |-> buf, in |-> in]
    ELSE LET u == UnquoteChar(in, quote) IN
         IF Head(in) = "nl" \/ ~u.ok THEN [ok |-> FALSE, buf |-> buf, in |-> in]
         ELSE IF quote = "sq" THEN [ok |-> TRUE, buf |-> Append(buf, u.val), in |-> u.rem]
         ELSE UnquoteLoop(u.rem, quote, Append(buf, u.val))

\* Unquote that knows no escape sequences
UnquoteNoEscapes(s) ==
    LET bad == [ok |-> FALSE, val |-> <<>>] IN
    IF Len(s) < 2 \/ s[1] \notin {"dq", "sq"} \/ s[Len(s)] # s[1] THEN bad
    ELSE LET inner == SubSeq(s, 2, Len(s) - 1) IN
         IF \E k \in 1..Len(inner) : inner[k] \in {"bs", "nl", s[1]} THEN bad
         ELSE IF s[1] = "sq" /\ Len(inner) > 1 THEN bad
         ELSE [ok |-> TRUE, val |-> inner]

\* strconv.Unquote(s): [ok, val].  The raw (backtick) form is never asked
\* for: cleanModelOutput calls only when s starts with a double or single quote.
\* A single-quoted literal holds at most one character or escape; the empty
\* one passes strconv's width test and unquotes to the empty string.
Unquote(s) ==
    LET bad == [ok |-> FALSE, val |-> <<>>] IN
    IF Len(s) < 2 THEN bad
    ELSE LET quote == s[1]
             close == IndexFrom(s, 2, <<quote>>)
         IN
         IF close = 0 \/ quote \notin {"dq", "sq"} THEN bad
         ELSE LET inner == SubSeq(s, 2, close - 1)
                  plain == \A k \in 1..Len(inner) : inner[k] \notin {"bs", "nl"}
                  valid == IF quote = "dq" THEN TRUE ELSE Len(inner) <= 1
              IN
              IF plain /\ valid
              THEN IF close = Len(s) THEN [ok |-> TRUE, val |-> inner] ELSE bad
              ELSE LET l == UnquoteLoop(Tail(s), quote, <<>>) IN
                   IF l.ok /\ l.in = <<quote>>
                   THEN [ok |-> TRUE, val |-> l.buf]
                   ELSE bad

----------------------------------------------------------------------------
(* cleanModelOutput *)

Fence == <<"bt", "bt", "bt">>

\* [a-zA-Z0-9_-] on the bytes the model uses
TagChars == {"a", "b", "d", "e", "f", "g", "i", "l", "n", "o", "r", "t", "v", "y",
             "T", "I", "L", "E", "B", "O", "D", "Y"}

\* the index after the longest run of tag characters starting at i
RECURSIVE SkipTag(_, _)
SkipTag(s, i) ==
    IF i <= Len(s) /\ s[i] \in TagChars THEN SkipTag(s, i + 1) ELSE i

\* one match of (?s)```[a-zA-Z0-9_-]*\n(.*?)``` anchored at i:
\* [ok, from, to, next]: the group is s[from..to], the match ends before next
FenceMatchAt(s, i) ==
    LET none == [ok |-> FALSE, from |-> 0, to |-> 0, next |-> 0] IN
    IF ~MatchAt(s, i, Fence) THEN none
    ELSE LET t == SkipTag(s, i + 3) IN
         IF ~(t <= Len(s) /\ s[t] = "nl") THEN none
         ELSE LET c == IndexFrom(s, t + 1, Fence) IN
              IF c = 0 THEN none
              ELSE [ok |-> TRUE, from |-> t + 1, to |-> c - 1, next |-> c + 3]

\* fenceRe.ReplaceAllString(s, "$1"): leftmost matches, non-overlapping
RECURSIVE ReplaceFences(_, _)
ReplaceFences(s, i) ==
    IF i > Len(s) THEN <<>>
    ELSE LET m == FenceMatchAt(s, i) IN
         IF m.ok
         THEN SubSeq(s, m.from, m.to) \o ReplaceFences(s, m.next)
         ELSE <<s[i]>> \o ReplaceFences(s, i + 1)

cleanModelOutput(s) ==
    LET s1 == TrimSpace(s)
        quoted == /\ Len(s1) >= 2
                  /\ \/ s1[1] = "dq" /\ s1[Len(s1)] = "dq"
                     \/ s1[1] = "sq" /\ s1[Len(s1)] = "sq"
        s2 == IF quoted /\ Unquote(s1).ok THEN Unquote(s1).val ELSE s1
        s3 == ReplaceFences(s2, 1)
        s4 == ReplaceAll(s3, Fence, <<>>)
        s5 == ReplaceAll(s4, <<"cr", "nl">>, <<"nl">>)
    IN  TrimSpace(s5)

----------------------------------------------------------------------------
(* stripLabels *)

TitleLabel == <<"t", "i", "t", "l", "e", ":">>
BodyLabel == <<"b", "o", "d", "y", ":">>

\* stripLine taking any word before a colon for a label
stripLineAnyLabel(line) ==
    LET trimmed == TrimSpace(line)
        colon == IndexFrom(trimmed, 1, <<":">>)
    IN  IF colon # 0 THEN TrimSpace(SubSeq(trimmed, colon + 1, Len(trimmed))) ELSE line

\* the body of the loop of stripLabels: what is appended to result for line
stripLine(line) ==
    LET trimmed == TrimSpace(line) IN
    IF HasPrefix(ToLower(trimmed), TitleLabel)
    THEN TrimSpace(SubSeq(trimmed, 7, Len(trimmed)))
    ELSE IF HasPrefix(ToLower(trimmed), BodyLabel)
    THEN TrimSpace(SubSeq(trimmed, 6, Len(trimmed)))
    ELSE line

stripLabels(s) ==
    LET lines == SplitLines(s) IN
    JoinLines([k \in 1..Len(lines) |-> stripLine(lines[k])])

----------------------------------------------------------------------------
(* callOllama *)

\* What the backend does with one POST: fault is the error of client.Do
\* ("none" when a response arrived), status the HTTP status, chunks the
\* JSON objects of the body in arrival order; a chunk with ok = FALSE is
\* malformed JSON.
StatusError == 400

\* DecodeLoop with a break on o.Done
RECURSIVE DecodeLoopUntilDone(_, _, _)
DecodeLoopUntilDone(chunks, i, result) ==
    IF i > Len(chunks) THEN [text |-> result, err |-> "nil"]
    ELSE IF ~chunks[i].ok THEN [text |-> <<>>, err |-> "decode"]
    ELSE IF chunks[i].done THEN [text |-> result \o chunks[i].response, err |-> "nil"]
    ELSE DecodeLoopUntilDone(chunks, i + 1, result \o chunks[i].response)

\* the decode loop: chunks from index i on, result so far
RECURSIVE DecodeLoop(_, _, _)
DecodeLoop(chunks, i, result) ==
    IF i > Len(chunks) THEN [text |-> result, err |-> "nil"]
    ELSE IF ~chunks[i].ok THEN [text |-> <<>>, err |-> "decode"]
    ELSE DecodeLoop(chunks, i + 1, result \o chunks[i].response)

\* callOllama without the test of the status code
callOllamaAnyStatus(resp) ==
    IF resp.fault # "none"
    THEN [text |-> <<>>, err |-> "transport", requests |-> 1, body |-> "none"]
    ELSE LET d == DecodeLoop(resp.chunks, 1, <<>>) IN
         IF d.err # "nil"
         THEN [text |-> d.text, err |-> d.err, requests |-> 1, body |-> "closed"]
         ELSE [text |-> TrimSpace(cleanModelOutput(d.text)), err |-> "nil",
               requests |-> 1, body |-> "closed"]

\* callOllama(url, req) given the backend's behaviour: [text, err, requests,
\* body].  requests counts the client.Do calls; body is what became of
\* resp.Body by the time the function returned: "none" when no response
\* arrived, "closed" by the deferred resp.Body.Close() otherwise.
callOllama(resp) ==
    IF resp.fault # "none"
    THEN [text |-> <<>>, err |-> "transport", requests |-> 1, body |-> "none"]
    ELSE IF resp.status >= StatusError
    THEN [text |-> <<>>, err |-> "status", requests |-> 1, body |-> "closed"]
    ELSE LET d == DecodeLoop(resp.chunks, 1, <<>>) IN
         IF d.err # "nil"
         THEN [text |-> d.text, err |-> d.err, requests |-> 1, body |-> "closed"]
         ELSE [text |-> TrimSpace(cleanModelOutput(d.text)), err |-> "nil",
               requests |-> 1, body |-> "closed"]

\* checkOllama given the backend's behaviour at /api/tags: [err, body], err
\* being "nil" or the kind of error, body as in callOllama
checkOllama(resp) ==
    IF resp.fault # "none" THEN [err |-> "unreachable", body |-> "none"]
    ELSE IF resp.status >= StatusError THEN [err |-> "status", body |-> "closed"]
    ELSE [err |-> "nil", body |-> "closed"]

\* getStagedDiff without the fallback to the unstaged diff
getStagedDiffOnly(staged, unstaged) ==
    IF ~staged.ok THEN [text |-> <<>>, err |-> "staged", ran |-> 1]
    ELSE [text |-> staged.out, err |-> "nil", ran |-> 1]

\* getStagedDiff given what the two git subprocesses would do:
\* [text, err, ran] where ran is the number of subprocesses started
getStagedDiff(staged, unstaged) ==
    IF ~staged.ok THEN [text |-> <<>>, err |-> "staged", ran |-> 1]
    ELSE IF TrimSpace(staged.out) = <<>>
    THEN IF ~unstaged.ok THEN [text |-> <<>>, err |-> "unstaged", ran |-> 2]
         ELSE [text |-> unstaged.out, err |-> "nil", ran |-> 2]
    ELSE [text |-> staged.out, err |-> "nil", ran |-> 1]

----------------------------------------------------------------------------
(* main: the state of one run, and of the file system it runs on *)

VARIABLES
    cfg,        \* the parsed flags: loadSummary, saveSummary, hookFile, forceWrite, noLabels
    fs,         \* the file system: path -> [exists, data]
    fs0,        \* the file system as this invocation found it
    pc,         \* where main is: "start", "diff", "summarize", "save", "style", "sink", "done", "failed"
    attempt,    \* the loop variable of the summarizer loop
    sum,        \* var sum string
    lastErr,    \* var lastErr error ("nil" or the kind of error)
    diff,       \* the text getStagedDiff returned
    attempts,   \* what each summarizer call returned, in order: [text, err]
    stylePrompt,\* [set, sum]: the summary embedded in the styling prompt once it is built
    finalMsg,   \* finalMsg
    stdout,     \* the lines written to os.Stdout
    exitCode,   \* the process exit status once pc is "done" or "failed"
    failedOp,   \* the external operation whose failure ended the run, "none" otherwise
    calls,      \* how often each external operation was invoked in this run
    ops,        \* the external operations of this run in order: [op, err, out, res]
    hookHandle, \* the handle f of the hook file: "none", "open", "closed"
    run,        \* the number of the current invocation of the program
    prev,       \* what the previous invocation left behind
    norm,       \* a text and what cleanModelOutput made of it, applied again and again
    reply,      \* what the backend does with the request of one callOllama
    ret         \* [called, text, err]: what that callOllama returned

vars == <<cfg, fs, fs0, pc, attempt, sum, lastErr, diff, attempts, stylePrompt, finalMsg,
          stdout, exitCode, failedOp, calls, ops, hookHandle, run, prev, norm, reply, ret>>

mainVars == <<cfg, fs, fs0, pc, attempt, sum, lastErr, diff, attempts, stylePrompt, finalMsg,
              stdout, exitCode, failedOp, calls, ops, hookHandle, run, prev>>

\* successive invocations of the program on the same file system
MaxRuns == 2

\* for attempt := 1; attempt <= 2; attempt++
MaxAttempts == 2

ExitOK == 0
ExitProbe == 1
ExitInput == 2
ExitSummarizer == 3
\* ExitStyle with the summarizer's code reused
ExitStyleShared == ExitSummarizer
ExitStyle == 4
ExitHookOpen == 5
\* ExitHookAppend with the open failure's code reused
ExitHookAppendShared == ExitHookOpen
ExitHookAppend == 6
ExitHookWrite == 7

SummaryPath == "summary.txt"
HookPath == "COMMIT_EDITMSG"
Paths == {SummaryPath, HookPath}

NoFile == [exists |-> FALSE, data |-> <<>>]
File(data) == [exists |-> TRUE, data |-> data]

\* WriteFile without O_TRUNC, writing at the end
WriteFileAppending(f, data) == File(f.data \o data)

\* os.WriteFile(name, data) on the file f: created or truncated, then written
WriteFile(f, data) == File(data)

\* AppendFile on a handle opened with O_TRUNC instead of O_APPEND
AppendFileTruncating(f, data) == File(data)

\* f.WriteString(data) on a handle opened with O_APPEND|O_WRONLY
AppendFile(f, data) == File(f.data \o data)

\* "\n# Suggested commit message (auto-generated):\n": the comment text
\* between the two newlines is one token
DelimiterText == "# Suggested commit message (auto-generated):"
AppendHeader == <<"nl", DelimiterText, "nl">>

\* "\n# Suggested commit message (auto-generated):\n" + finalMsg + "\n"
hookSuggestion(msg) == AppendHeader \o msg \o <<"nl">>

\* hookLine without the newline
hookLineBare(msg) == msg

\* []byte(finalMsg + "\n")
hookLine(msg) == msg \o <<"nl">>

Configs ==
    [loadSummary : {"", SummaryPath},
     saveSummary : {"", SummaryPath},
     hookFile    : {"", HookPath},
     forceWrite  : BOOLEAN,
     noLabels    : BOOLEAN]

InitialFiles ==
    {f \in [Paths -> {NoFile, File(<<"sp", "n", "nl">>), File(<<"a">>)}] :
        f[SummaryPath] # File(<<"a">>) /\ f[HookPath] # File(<<"sp", "n", "nl">>)}

\* what the backend may do with one request
Chunk(text, done) == [ok |-> TRUE, response |-> text, done |-> done]
BadChunk == [ok |-> FALSE, response |-> <<>>, done |-> FALSE]
Refused == [fault |-> "refused", status |-> 0, chunks |-> <<>>]
HttpStatus(code) == [fault |-> "none", status |-> code, chunks |-> <<>>]
Stream(chunks) == [fault |-> "none", status |-> 200, chunks |-> chunks]

ProbeResponses == {Refused, HttpStatus(200), HttpStatus(500)}

SummarizerResponses ==
    {Refused, HttpStatus(500),
     Stream(<<Chunk(<<"a">>, FALSE), Chunk(<<"b">>, TRUE)>>),
     Stream(<<Chunk(<<"n", "nl">>, TRUE)>>)}

StylerResponses ==
    {Refused, Stream(<<Chunk(<<"a">>, FALSE), BadChunk>>),
     Stream(<<Chunk(<<"T", "i", "t", "l", "e", ":", "sp", "a", "nl">>, FALSE),
              Chunk(<<"n">>, TRUE)>>),
     Stream(<<Chunk(<<"T", "i", "t", "l", "e", ":", "sp", "a", "nl",
                      "sp", "B", "O", "D", "Y", ":", "b", "sp", "nl",
                      "E", "x", "t", "r", "a", ":", "sp", "n">>, TRUE)>>),
     Stream(<<Chunk(<<"b">>, TRUE)>>)}

\* what a git subprocess may do: exit status and combined output
StagedResults ==
    {[ok |-> FALSE, out |-> <<>>], [ok |-> TRUE, out |-> <<"nl">>], [ok |-> TRUE, out |-> <<"a">>]}
UnstagedResults ==
    {[ok |-> FALSE, out |-> <<>>], [ok |-> TRUE, out |-> <<>>], [ok |-> TRUE, out |-> <<"n">>]}

NoCalls ==
    [probe |-> 0, gitStaged |-> 0, gitUnstaged |-> 0, summarizer |-> 0, styler |-> 0,
     readFile |-> 0, saveWrite |-> 0, hookStat |-> 0, hookOpen |-> 0, hookWrite |-> 0]

NoPrev ==
    [ran |-> FALSE, cfg |-> CHOOSE c \in Configs : TRUE, exitCode |-> ExitOK,
     failedOp |-> "none", finalMsg |-> <<>>, persisted |-> FALSE,
     ops |-> <<>>, fs0 |-> [p \in Paths |-> NoFile],
     stylePrompt |-> [set |-> FALSE, sum |-> <<>>]]

\* the locals of main before its first statement
Fresh(p, a, s, e, d, as, sp, f, o, x, op, c, l, h) ==
    /\ p = "start"
    /\ a = 1
    /\ s = <<>>
    /\ e = "nil"
    /\ d = <<>>
    /\ as = <<>>
    /\ sp = [set |-> FALSE, sum |-> <<>>]
    /\ f = <<>>
    /\ o = <<>>
    /\ x = ExitOK
    /\ op = "none"
    /\ c = NoCalls
    /\ l = <<>>
    /\ h = "none"

NoReturn == [called |-> FALSE, text |-> <<>>, err |-> "nil", requests |-> 0, body |-> "none"]

\* no function is being examined on its own
FunctionsIdle ==
    /\ norm = <<>>
    /\ reply = Refused
    /\ ret = NoReturn

Init ==
    /\ cfg \in Configs
    /\ fs \in InitialFiles
    /\ fs0 = fs
    /\ Fresh(pc, attempt, sum, lastErr, diff, attempts, stylePrompt, finalMsg,
             stdout, exitCode, failedOp, calls, ops, hookHandle)
    /\ run = 1
    /\ prev = NoPrev
    /\ FunctionsIdle

\* os.Exit(code) after the failure of op
Exit(code, op) ==
    /\ pc' = "failed"
    /\ exitCode' = code
    /\ failedOp' = op

Count(op) == calls' = [calls EXCEPT ![op] = @ + 1]

\* one external operation as the run went through it: err is "nil" or the
\* kind of failure, out the text it returned or was given to write, res
\* what became of the response body it obtained ("none" when it obtained none)
Op(op, err, out, res) == [op |-> op, err |-> err, out |-> out, res |-> res]

Log(entries) == ops' = ops \o entries

\* LoadSummary with the content trimmed
LoadSummaryTrimmed ==
    /\ pc = "start"
    /\ cfg.loadSummary # ""
    /\ Count("readFile")
    /\ \E ioErr \in BOOLEAN :
         IF ~fs[cfg.loadSummary].exists \/ ioErr
         THEN /\ Exit(ExitInput, "readFile")
              /\ Log(<<Op("readFile", "io", <<>>, "none")>>)
              /\ UNCHANGED sum
         ELSE /\ sum' = TrimSpace(fs[cfg.loadSummary].data)
              /\ Log(<<Op("readFile", "nil", fs[cfg.loadSummary].data, "none")>>)
              /\ pc' = "style"
              /\ UNCHANGED <<exitCode, failedOp>>
    /\ UNCHANGED <<cfg, fs, fs0, attempt, lastErr, diff, attempts, stylePrompt, finalMsg,
                   stdout, hookHandle, run, prev, norm, reply, ret>>

\* if loadSummary != "": os.ReadFile(loadSummary).  The read fails when the
\* file is missing, and may fail when it is there (ioErr).
LoadSummary ==
    /\ pc = "start"
    /\ cfg.loadSummary # ""
    /\ Count("readFile")
    /\ \E ioErr \in BOOLEAN :
         IF ~fs[cfg.loadSummary].exists \/ ioErr
         THEN /\ Exit(ExitInput, "readFile")
              /\ Log(<<Op("readFile", "io", <<>>, "none")>>)
              /\ UNCHANGED sum
         ELSE /\ sum' = fs[cfg.loadSummary].data
              /\ Log(<<Op("readFile", "nil", fs[cfg.loadSummary].data, "none")>>)
              /\ pc' = "style"
              /\ UNCHANGED <<exitCode, failedOp>>
    /\ UNCHANGED <<cfg, fs, fs0, attempt, lastErr, diff, attempts, stylePrompt, finalMsg,
                   stdout, hookHandle, run, prev, norm, reply, ret>>

\* CheckOllama with a failed probe only reported
CheckOllamaAdvisory(responses) ==
    /\ pc = "start"
    /\ cfg.loadSummary = ""
    /\ Count("probe")
    /\ \E resp \in responses :
         LET r == checkOllama(resp) IN
         /\ Log(<<Op("probe", r.err, <<>>, r.body)>>)
         /\ pc' = "diff"
         /\ UNCHANGED <<exitCode, failedOp>>
    /\ UNCHANGED <<cfg, fs, fs0, attempt, sum, lastErr, diff, attempts, stylePrompt, finalMsg,
                   stdout, hookHandle, run, prev, norm, reply, ret>>

\* else: checkOllama(ollamaURL)
CheckOllama(responses) ==
    /\ pc = "start"
    /\ cfg.loadSummary = ""
    /\ Count("probe")
    /\ \E resp \in responses :
         LET r == checkOllama(resp) IN
         /\ Log(<<Op("probe", r.err, <<>>, r.body)>>)
         /\ IF r.err # "nil"
            THEN Exit(ExitProbe, "probe")
            ELSE /\ pc' = "diff"
                 /\ UNCHANGED <<exitCode, failedOp>>
    /\ UNCHANGED <<cfg, fs, fs0, attempt, sum, lastErr, diff, attempts, stylePrompt, finalMsg,
                   stdout, hookHandle, run, prev, norm, reply, ret>>

\* diff, err := getStagedDiff()
GetStagedDiff(stagedResults, unstagedResults) ==
    /\ pc = "diff"
    /\ \E staged \in stagedResults, unstaged \in unstagedResults :
         LET r == getStagedDiff(staged, unstaged) IN
         /\ calls' = [calls EXCEPT !.gitStaged = @ + 1, !.gitUnstaged = @ + r.ran - 1]
         /\ Log(<<Op("gitStaged", IF staged.ok THEN "nil" ELSE "exit", staged.out, "none")>> \o
                IF r.ran = 2
                THEN <<Op("gitUnstaged", IF unstaged.ok THEN "nil" ELSE "exit",
                          unstaged.out, "none")>>
                ELSE <<>>)
         /\ IF r.err # "nil"
            THEN /\ Exit(ExitInput, "gitDiff")
                 /\ UNCHANGED diff
            ELSE /\ diff' = r.text
                 /\ pc' = "summarize"
                 /\ UNCHANGED <<exitCode, failedOp>>
    /\ UNCHANGED <<cfg, fs, fs0, attempt, sum, lastErr, attempts, stylePrompt, finalMsg,
                   stdout, hookHandle, run, prev, norm, reply, ret>>

\* Summarize with a failed attempt not counted
SummarizeRetrying(responses) ==
    /\ pc = "summarize"
    /\ attempt <= MaxAttempts
    /\ Count("summarizer")
    /\ \E resp \in responses :
         LET r == callOllama(resp)
             next == IF r.err # "nil" THEN attempt ELSE attempt + 1
         IN
         /\ sum' = r.text
         /\ lastErr' = r.err
         /\ attempts' = Append(attempts, r)
         /\ Log(<<Op("summarizer", r.err, r.text, r.body)>>)
         /\ attempt' = next
         /\ IF next <= MaxAttempts
            THEN UNCHANGED <<pc, exitCode, failedOp>>
            ELSE /\ pc' = "save"
                 /\ UNCHANGED <<exitCode, failedOp>>
    /\ UNCHANGED <<cfg, fs, fs0, diff, stylePrompt, finalMsg, stdout, hookHandle, run, prev, norm, reply, ret>>

\* Summarize with a break after an attempt that returned without error
SummarizeUntilSuccess(responses) ==
    /\ pc = "summarize"
    /\ attempt <= MaxAttempts
    /\ Count("summarizer")
    /\ \E resp \in responses :
         LET r == callOllama(resp) IN
         /\ sum' = r.text
         /\ lastErr' = r.err
         /\ attempts' = Append(attempts, r)
         /\ Log(<<Op("summarizer", r.err, r.text, r.body)>>)
         /\ attempt' = attempt + 1
         /\ IF r.err = "nil"
            THEN /\ pc' = "save"
                 /\ UNCHANGED <<exitCode, failedOp>>
            ELSE IF attempt + 1 <= MaxAttempts
            THEN UNCHANGED <<pc, exitCode, failedOp>>
            ELSE Exit(ExitSummarizer, "summarizer")
    /\ UNCHANGED <<cfg, fs, fs0, diff, stylePrompt, finalMsg, stdout, hookHandle, run, prev, norm, reply, ret>>

\* Summarize with an error that stays once an attempt failed
SummarizeStickyError(responses) ==
    /\ pc = "summarize"
    /\ attempt <= MaxAttempts
    /\ Count("summarizer")
    /\ \E resp \in responses :
         LET r == callOllama(resp)
             err == IF lastErr # "nil" THEN lastErr ELSE r.err
         IN
         /\ sum' = r.text
         /\ lastErr' = err
         /\ attempts' = Append(attempts, r)
         /\ Log(<<Op("summarizer", r.err, r.text, r.body)>>)
         /\ attempt' = attempt + 1
         /\ IF attempt + 1 <= MaxAttempts
            THEN UNCHANGED <<pc, exitCode, failedOp>>
            ELSE IF err # "nil"
            THEN Exit(ExitSummarizer, "summarizer")
            ELSE /\ pc' = "save"
                 /\ UNCHANGED <<exitCode, failedOp>>
    /\ UNCHANGED <<cfg, fs, fs0, diff, stylePrompt, finalMsg, stdout, hookHandle, run, prev, norm, reply, ret>>

\* one iteration of the summarizer loop, and the test after the loop when
\* the iteration was the last one
Summarize(responses) ==
    /\ pc = "summarize"
    /\ attempt <= MaxAttempts
    /\ Count("summarizer")
    /\ \E resp \in responses :
         LET r == callOllama(resp) IN
         /\ sum' = r.text
         /\ lastErr' = r.err
         /\ attempts' = Append(attempts, r)
         /\ Log(<<Op("summarizer", r.err, r.text, r.body)>>)
         /\ attempt' = attempt + 1
         /\ IF attempt + 1 <= MaxAttempts
            THEN UNCHANGED <<pc, exitCode, failedOp>>
            ELSE IF r.err # "nil"
            THEN Exit(ExitSummarizer, "summarizer")
            ELSE /\ pc' = "save"
                 /\ UNCHANGED <<exitCode, failedOp>>
    /\ UNCHANGED <<cfg, fs, fs0, diff, stylePrompt, finalMsg, stdout, hookHandle, run, prev, norm, reply, ret>>

\* SaveSummary with a failed write ending the run
SaveSummaryFatal ==
    /\ pc = "save"
    /\ IF cfg.saveSummary = ""
       THEN /\ pc' = "style"
            /\ UNCHANGED <<fs, calls, ops, exitCode, failedOp>>
       ELSE /\ Count("saveWrite")
            /\ \E outcome \in {"ok", "open", "write"} :
                 /\ fs' = [fs EXCEPT ![cfg.saveSummary] =
                             CASE outcome = "ok" -> WriteFile(@, sum)
                               [] outcome = "open" -> @
                               [] outcome = "write" -> File(<<>>)]
                 /\ Log(<<Op("saveWrite", IF outcome = "ok" THEN "nil" ELSE outcome,
                             sum, "none")>>)
                 /\ IF outcome = "ok"
                    THEN /\ pc' = "style"
                         /\ UNCHANGED <<exitCode, failedOp>>
                    ELSE Exit(ExitInput, "saveWrite")
    /\ UNCHANGED <<cfg, fs0, attempt, sum, lastErr, diff, attempts, stylePrompt, finalMsg,
                   stdout, hookHandle, run, prev, norm, reply, ret>>

\* if saveSummary != "": os.WriteFile(saveSummary, sum).  A failure is a
\* warning; the file is untouched when the open failed and empty when the
\* write after the truncating open failed.
SaveSummary ==
    /\ pc = "save"
    /\ IF cfg.saveSummary = ""
       THEN UNCHANGED <<fs, calls, ops>>
       ELSE /\ Count("saveWrite")
            /\ \E outcome \in {"ok", "open", "write"} :
                 /\ fs' = [fs EXCEPT ![cfg.saveSummary] =
                             CASE outcome = "ok" -> WriteFile(@, sum)
                               [] outcome = "open" -> @
                               [] outcome = "write" -> File(<<>>)]
                 /\ Log(<<Op("saveWrite", IF outcome = "ok" THEN "nil" ELSE outcome,
                             sum, "none")>>)
    /\ pc' = "style"
    /\ UNCHANGED <<cfg, fs0, attempt, sum, lastErr, diff, attempts, stylePrompt, finalMsg,
                   stdout, exitCode, failedOp, hookHandle, run, prev, norm, reply, ret>>

\* Style leaving the final message unprinted when it goes to a hook file
StyleSilentWithHook(responses) ==
    /\ pc = "style"
    /\ Count("styler")
    /\ stylePrompt' = [set |-> TRUE, sum |-> sum]
    /\ \E resp \in responses :
         LET r == callOllama(resp)
             trimmed == TrimSpace(r.text)
             msg == IF cfg.noLabels THEN stripLabels(trimmed) ELSE trimmed
         IN
         IF r.err # "nil"
         THEN /\ Exit(ExitStyle, "styler")
              /\ Log(<<Op("styler", r.err, r.text, r.body)>>)
              /\ UNCHANGED <<finalMsg, stdout>>
         ELSE /\ finalMsg' = msg
              /\ IF cfg.hookFile = ""
                 THEN /\ stdout' = Append(stdout, msg)
                      /\ Log(<<Op("styler", r.err, r.text, r.body),
                               Op("println", "nil", msg, "none")>>)
                      /\ pc' = "done"
                      /\ exitCode' = ExitOK
                 ELSE /\ Log(<<Op("styler", r.err, r.text, r.body)>>)
                      /\ pc' = "sink"
                      /\ UNCHANGED <<stdout, exitCode>>
              /\ UNCHANGED failedOp
    /\ UNCHANGED <<cfg, fs, fs0, attempt, sum, lastErr, diff, attempts, hookHandle, run, prev, norm, reply, ret>>

\* Style printing what the styling call returned before the test of its error
StylePrintFirst(responses) ==
    /\ pc = "style"
    /\ Count("styler")
    /\ stylePrompt' = [set |-> TRUE, sum |-> sum]
    /\ \E resp \in responses :
         LET r == callOllama(resp)
             trimmed == TrimSpace(r.text)
             msg == IF cfg.noLabels THEN stripLabels(trimmed) ELSE trimmed
         IN
         /\ stdout' = Append(stdout, msg)
         /\ IF r.err # "nil"
            THEN /\ Exit(ExitStyle, "styler")
                 /\ Log(<<Op("println", "nil", msg, "none"), Op("styler", r.err, r.text, r.body)>>)
                 /\ UNCHANGED finalMsg
            ELSE /\ finalMsg' = msg
                 /\ Log(<<Op("styler", r.err, r.text, r.body), Op("println", "nil", msg, "none")>>)
                 /\ IF cfg.hookFile = ""
                    THEN /\ pc' = "done"
                         /\ exitCode' = ExitOK
                    ELSE /\ pc' = "sink"
                         /\ UNCHANGED exitCode
                 /\ UNCHANGED failedOp
    /\ UNCHANGED <<cfg, fs, fs0, attempt, sum, lastErr, diff, attempts, hookHandle, run, prev, norm, reply, ret>>

\* Style with os.Stat on the default hook path when no hook file is given
StyleThenStat(responses) ==
    /\ pc = "style"
    /\ calls' = [calls EXCEPT !.styler = @ + 1,
                              !.hookStat = @ + IF cfg.hookFile = "" THEN 1 ELSE 0]
    /\ stylePrompt' = [set |-> TRUE, sum |-> sum]
    /\ \E resp \in responses :
         LET r == callOllama(resp)
             trimmed == TrimSpace(r.text)
             msg == IF cfg.noLabels THEN stripLabels(trimmed) ELSE trimmed
         IN
         IF r.err # "nil"
         THEN /\ Exit(ExitStyle, "styler")
              /\ Log(<<Op("styler", r.err, r.text, r.body)>>)
              /\ UNCHANGED <<finalMsg, stdout>>
         ELSE /\ finalMsg' = msg
              /\ stdout' = Append(stdout, msg)
              /\ Log(<<Op("styler", r.err, r.text, r.body), Op("println", "nil", msg, "none")>>)
              /\ IF cfg.hookFile = ""
                 THEN /\ pc' = "done"
                      /\ exitCode' = ExitOK
                 ELSE /\ pc' = "sink"
                      /\ UNCHANGED exitCode
              /\ UNCHANGED failedOp
    /\ UNCHANGED <<cfg, fs, fs0, attempt, sum, lastErr, diff, attempts, hookHandle, run, prev, norm, reply, ret>>

\* the styling call, the post-processing and fmt.Println(finalMsg)
Style(responses) ==
    /\ pc = "style"
    /\ Count("styler")
    /\ stylePrompt' = [set |-> TRUE, sum |-> sum]
    /\ \E resp \in responses :
         LET r == callOllama(resp)
             trimmed == TrimSpace(r.text)
             msg == IF cfg.noLabels THEN stripLabels(trimmed) ELSE trimmed
         IN
         IF r.err # "nil"
         THEN /\ Exit(ExitStyle, "styler")
              /\ Log(<<Op("styler", r.err, r.text, r.body)>>)
              /\ UNCHANGED <<finalMsg, stdout>>
         ELSE /\ finalMsg' = msg
              /\ stdout' = Append(stdout, msg)
              /\ Log(<<Op("styler", r.err, r.text, r.body), Op("println", "nil", msg, "none")>>)
              /\ IF cfg.hookFile = ""
                 THEN /\ pc' = "done"
                      /\ exitCode' = ExitOK
                 ELSE /\ pc' = "sink"
                      /\ UNCHANGED exitCode
              /\ UNCHANGED failedOp
    /\ UNCHANGED <<cfg, fs, fs0, attempt, sum, lastErr, diff, attempts, hookHandle, run, prev, norm, reply, ret>>

\* if hookFile != "": append to the file when os.Stat finds it and force is
\* not set, os.WriteFile otherwise.  statErr: os.Stat fails on a file that
\* is there (the directory cannot be searched), and then os.WriteFile's
\* open fails for the same reason.  outcome is the first of open, write and
\* close to fail.  In the append branch the deferred f.Close() runs when
\* main returns, after "Done", and its error is logged; os.Exit(6) ends the
\* process without running it.  os.WriteFile returns the error of its own
\* open, write or close.  os.Stat is called for the status line when force
\* is not set, and once more in the test of the branch.
WriteHook ==
    /\ pc = "sink"
    /\ \E statErr \in BOOLEAN, outcome \in {"ok", "open", "write", "close"} :
         LET f == fs[cfg.hookFile]
             found == f.exists /\ ~statErr
             text == hookLine(finalMsg)
             stats == IF cfg.forceWrite THEN 1 ELSE 2
         IN
         /\ statErr => f.exists /\ outcome = "open"
         /\ IF found /\ ~cfg.forceWrite
            THEN CASE outcome = "open" ->
                        /\ Exit(ExitHookOpen, "hookOpenAppend")
                        /\ calls' = [calls EXCEPT !.hookStat = @ + stats, !.hookOpen = @ + 1]
                        /\ Log(<<Op("hookOpen", "open", <<>>, "none")>>)
                        /\ UNCHANGED <<fs, hookHandle>>
                   [] outcome = "write" ->
                        /\ Exit(ExitHookAppend, "hookAppendWrite")
                        /\ calls' = [calls EXCEPT !.hookStat = @ + stats, !.hookOpen = @ + 1,
                                                !.hookWrite = @ + 1]
                        /\ Log(<<Op("hookOpen", "nil", <<>>, "none"),
                                 Op("hookWrite", "write", hookSuggestion(finalMsg), "none")>>)
                        /\ hookHandle' = "open"
                        /\ UNCHANGED fs
                   [] outcome \in {"ok", "close"} ->
                        /\ fs' = [fs EXCEPT ![cfg.hookFile] =
                                    AppendFile(f, hookSuggestion(finalMsg))]
                        /\ calls' = [calls EXCEPT !.hookStat = @ + stats, !.hookOpen = @ + 1,
                                                !.hookWrite = @ + 1]
                        /\ Log(<<Op("hookOpen", "nil", <<>>, "none"),
                                 Op("hookWrite", "nil", hookSuggestion(finalMsg), "none"),
                                 Op("hookClose", IF outcome = "close" THEN "close" ELSE "nil",
                                    <<>>, "none")>>)
                        /\ hookHandle' = "closed"
                        /\ pc' = "done"
                        /\ exitCode' = ExitOK
                        /\ UNCHANGED failedOp
            ELSE CASE outcome = "open" ->
                        /\ Exit(ExitHookWrite, "hookWriteFileOpen")
                        /\ calls' = [calls EXCEPT !.hookStat = @ + stats, !.hookOpen = @ + 1]
                        /\ Log(<<Op("hookWriteFile", "open", text, "none")>>)
                        /\ UNCHANGED <<fs, hookHandle>>
                   [] outcome = "write" ->
                        /\ Exit(ExitHookWrite, "hookWriteFileWrite")
                        /\ calls' = [calls EXCEPT !.hookStat = @ + stats, !.hookOpen = @ + 1,
                                                !.hookWrite = @ + 1]
                        /\ Log(<<Op("hookWriteFile", "write", text, "none")>>)
                        /\ fs' = [fs EXCEPT ![cfg.hookFile] = File(<<>>)]
                        /\ UNCHANGED hookHandle
                   [] outcome = "close" ->
                        /\ Exit(ExitHookWrite, "hookWriteFileClose")
                        /\ calls' = [calls EXCEPT !.hookStat = @ + stats, !.hookOpen = @ + 1,
                                                !.hookWrite = @ + 1]
                        /\ Log(<<Op("hookWriteFile", "close", text, "none")>>)
                        /\ fs' = [fs EXCEPT ![cfg.hookFile] = WriteFile(f, text)]
                        /\ UNCHANGED hookHandle
                   [] outcome = "ok" ->
                        /\ fs' = [fs EXCEPT ![cfg.hookFile] = WriteFile(f, text)]
                        /\ calls' = [calls EXCEPT !.hookStat = @ + stats, !.hookOpen = @ + 1,
                                                !.hookWrite = @ + 1]
                        /\ Log(<<Op("hookWriteFile", "nil", text, "none")>>)
                        /\ pc' = "done"
                        /\ exitCode' = ExitOK
                        /\ UNCHANGED <<failedOp, hookHandle>>
    /\ UNCHANGED <<cfg, fs0, attempt, sum, lastErr, diff, attempts, stylePrompt, finalMsg,
                   stdout, run, prev, norm, reply, ret>>

\* the program is started again, with any flags, on the files the
\* previous invocation left
Rerun(configs) ==
    /\ pc \in {"done", "failed"}
    /\ run < MaxRuns
    /\ run' = run + 1
    /\ prev' = [ran |-> TRUE, cfg |-> cfg, exitCode |-> exitCode, failedOp |-> failedOp,
                finalMsg |-> finalMsg, ops |-> ops, fs0 |-> fs0, stylePrompt |-> stylePrompt,
                persisted |-> (pc = "done" /\ cfg.hookFile # "")]
    /\ cfg' \in configs
    /\ Fresh(pc', attempt', sum', lastErr', diff', attempts', stylePrompt', finalMsg',
             stdout', exitCode', failedOp', calls', ops', hookHandle')
    /\ fs0' = fs
    /\ UNCHANGED <<fs, norm, reply, ret>>

\* one invocation, with everything the backend, git and the file system may do
Next ==
    \/ LoadSummary
    \/ CheckOllama(ProbeResponses)
    \/ GetStagedDiff(StagedResults, UnstagedResults)
    \/ Summarize(SummarizerResponses)
    \/ SaveSummary
    \/ Style(StylerResponses)
    \/ WriteHook

Spec == Init /\ [][Next]_vars

\* one invocation in which every call returns: the process is never left
\* waiting, so main takes its next step as long as it has one
SpecLive == Spec /\ WF_vars(Next)

\* successive invocations on the same file system, labels kept, with one
\* failing and one succeeding behaviour of each collaborator
RunConfigs == {c \in Configs : ~c.noLabels}
RunStaged == {[ok |-> FALSE, out |-> <<>>], [ok |-> TRUE, out |-> <<"nl">>]}
RunUnstaged == {[ok |-> FALSE, out |-> <<>>], [ok |-> TRUE, out |-> <<"a">>]}
RunSummaries == {Refused, Stream(<<Chunk(<<"n", "nl">>, TRUE)>>)}
RunStyles == {Refused, Stream(<<Chunk(<<"b">>, TRUE)>>)}

InitRuns ==
    /\ Init
    /\ cfg \in RunConfigs

NextRuns ==
    \/ LoadSummary
    \/ CheckOllama(ProbeResponses)
    \/ GetStagedDiff(RunStaged, RunUnstaged)
    \/ Summarize(RunSummaries)
    \/ SaveSummary
    \/ Style(RunStyles)
    \/ WriteHook
    \/ Rerun(RunConfigs)

SpecRuns == InitRuns /\ [][NextRuns]_vars

----------------------------------------------------------------------------
(* cleanModelOutput and callOllama on their own *)

\* main is not running
MainIdle ==
    /\ cfg = NoPrev.cfg
    /\ fs = [p \in Paths |-> NoFile]
    /\ fs0 = fs
    /\ Fresh(pc, attempt, sum, lastErr, diff, attempts, stylePrompt, finalMsg,
             stdout, exitCode, failedOp, calls, ops, hookHandle)
    /\ run = 1
    /\ prev = NoPrev

\* the texts given to cleanModelOutput: at most MaxPieces pieces, a piece
\* being one byte or a run of three backticks
MaxPieces == 5
Pieces == {<<"n">>, <<"nl">>, <<"cr">>, <<"dq">>, <<"sq">>, <<"bs">>, <<"bt">>, Fence}

RECURSIVE TextsOf(_)
TextsOf(k) ==
    IF k = 0 THEN {<<>>}
    ELSE LET shorter == TextsOf(k - 1) IN
         shorter \cup {t \o p : t \in shorter, p \in Pieces}

\* the quoted literal "hello\nworld", with the newline as an escape
HelloWorld ==
    <<"dq", "h", "e", "l", "l", "o", "bs", "n", "w", "o", "r", "l", "d", "dq">>

RawTexts == TextsOf(MaxPieces) \cup {HelloWorld}

\* how often cleanModelOutput is applied to its own result
MaxApplications == 2

InitNorm ==
    /\ MainIdle
    /\ norm \in {<<x>> : x \in RawTexts}
    /\ reply = Refused
    /\ ret = NoReturn

Normalize ==
    /\ norm # <<>>
    /\ Len(norm) <= MaxApplications
    /\ norm' = Append(norm, cleanModelOutput(norm[Len(norm)]))
    /\ UNCHANGED <<mainVars, reply, ret>>

NextNorm == Normalize

SpecNorm == InitNorm /\ [][NextNorm]_vars

\* the bodies given to callOllama: at most MaxChunks JSON objects
MaxChunks == 3
Fragments == {<<>>, <<"a">>, <<"b", "sp">>, <<"bt">>}
Chunks == {Chunk(t, d) : t \in Fragments, d \in BOOLEAN} \cup {BadChunk}

RECURSIVE BodiesOf(_)
BodiesOf(k) ==
    IF k = 0 THEN {<<>>}
    ELSE LET shorter == BodiesOf(k - 1) IN
         shorter \cup {Append(b, c) : b \in shorter, c \in Chunks}

BackendBehaviours ==
    {Refused} \cup
    {[fault |-> "none", status |-> code, chunks |-> b] :
        code \in {200, 399, 400, 500}, b \in BodiesOf(MaxChunks)}

InitClient ==
    /\ MainIdle
    /\ norm = <<>>
    /\ reply \in BackendBehaviours
    /\ ret = NoReturn

Call ==
    /\ ~ret.called
    /\ ret' = LET r == callOllama(reply) IN
              [called |-> TRUE, text |-> r.text, err |-> r.err,
               requests |-> r.requests, body |-> r.body]
    /\ UNCHANGED <<mainVars, norm, reply>>

NextClient == Call

SpecClient == InitClient /\ [][NextClient]_vars

----------------------------------------------------------------------------
(* Properties *)

\* the summarizer loop has run all its iterations
LoopOver == Len(attempts) = MaxAttempts

\* the styling prompt was built around the text t
StyledWith(t) == stylePrompt.set /\ stylePrompt.sum = t

\* C1: without a load-path, when summarizer attempt 1 fails and attempt 2
\* succeeds the run goes on to the styling stage with attempt 2's text as
\* the summary and does not end with the summarizer failure; when both
\* attempts fail the run ends with exit code 3 and the styler is never called.
C1_RetryOutcome ==
    LoopOver =>
        /\ (attempts[1].err # "nil" /\ attempts[2].err = "nil") =>
              /\ sum = attempts[2].text
              /\ ~(pc = "failed" /\ exitCode = 3)
              /\ pc \in {"save", "style"} \/ StyledWith(attempts[2].text)
        /\ (attempts[1].err # "nil" /\ attempts[2].err # "nil") =>
              /\ pc = "failed"
              /\ exitCode = 3
              /\ calls.styler = 0

C1_Witness ==
    /\ LoopOver
    /\ attempts[1].err = "transport"
    /\ attempts[2].err = "nil"
    /\ StyledWith(<<"a", "b">>)
    /\ pc = "done"

\* C2: whenever some summarizer attempt returned without error, the run
\* does not end with the summarizer failure and reaches the styling stage
\* with the text of a successful attempt as the summary.
C2_AnySuccessAccepted ==
    (LoopOver /\ \E k \in 1..Len(attempts) : attempts[k].err = "nil") =>
        /\ ~(pc = "failed" /\ exitCode = 3)
        /\ \/ pc \in {"save", "style"}
           \/ \E k \in 1..Len(attempts) :
                attempts[k].err = "nil" /\ StyledWith(attempts[k].text)

\* C3: with a load-path the probe, the diff subprocesses and the
\* summarizer are never invoked, whether the load succeeds or fails, and
\* the summary given to the styling stage is the file's content as it is.
C3_LoadShortCircuit ==
    cfg.loadSummary # "" =>
        /\ calls.probe = 0
        /\ calls.gitStaged = 0
        /\ calls.gitUnstaged = 0
        /\ calls.summarizer = 0
        /\ stylePrompt.set => stylePrompt.sum = fs0[cfg.loadSummary].data

C3_Witness ==
    /\ cfg.loadSummary # ""
    /\ fs0[cfg.loadSummary] = File(<<"sp", "n", "nl">>)
    /\ StyledWith(<<"sp", "n", "nl">>)
    /\ calls.styler = 1
    /\ pc = "done"

\* the hook file was written and the run ended with success
Persisted == pc = "done" /\ cfg.hookFile # ""

\* C4: when the hook file did not exist or --force is set, after a
\* successful write the file holds exactly the final message and one
\* newline, whatever it held before.
C4_CreateOrOverwrite ==
    (Persisted /\ (~fs0[cfg.hookFile].exists \/ cfg.forceWrite)) =>
        fs[cfg.hookFile] = File(finalMsg \o <<"nl">>)

C4_Witness ==
    /\ Persisted
    /\ cfg.forceWrite
    /\ fs0[cfg.hookFile] = File(<<"a">>)
    /\ finalMsg = <<"b">>
    /\ fs[cfg.hookFile] = File(<<"b", "nl">>)

\* C5 as stated: when the hook file exists and --force is not set, the new
\* content is the old content, then the delimiter comment line, the final
\* message and a newline.
C5_AppendAsStated ==
    (Persisted /\ fs0[cfg.hookFile].exists /\ ~cfg.forceWrite) =>
        fs[cfg.hookFile] =
            File(fs0[cfg.hookFile].data \o <<DelimiterText, "nl">> \o finalMsg \o <<"nl">>)

\* C5: when the hook file exists and --force is not set, the new content
\* is the old content, then a newline, the delimiter comment line, the
\* final message and a newline.
C5_AppendAfterNewline ==
    (Persisted /\ fs0[cfg.hookFile].exists /\ ~cfg.forceWrite) =>
        fs[cfg.hookFile] =
            File(fs0[cfg.hookFile].data \o <<"nl", DelimiterText, "nl">> \o finalMsg \o <<"nl">>)

C5_Witness ==
    /\ Persisted
    /\ ~cfg.forceWrite
    /\ fs0[cfg.hookFile] = File(<<"a">>)
    /\ finalMsg = <<"b">>
    /\ fs[cfg.hookFile] = File(<<"a", "nl", DelimiterText, "nl", "b", "nl">>)
    /\ hookHandle = "closed"

\* this invocation wrote the message the previous one wrote, to the same
\* file with the same --force
PersistedAgain ==
    /\ Persisted
    /\ prev.ran
    /\ prev.persisted
    /\ prev.cfg.hookFile = cfg.hookFile
    /\ prev.cfg.forceWrite = cfg.forceWrite
    /\ prev.finalMsg = finalMsg

\* C6 as stated: writing the same message twice in succession leaves the
\* hook file as writing it once left it.
C6_SinkIdempotent ==
    PersistedAgain => fs[cfg.hookFile] = fs0[cfg.hookFile]

\* C6: with --force the second write of the same message leaves the hook
\* file as the first left it; without --force the second write appends
\* one more delimiter and message to what the first left.
C6_IdempotentOnlyWithForce ==
    PersistedAgain =>
        IF cfg.forceWrite
        THEN fs[cfg.hookFile] = fs0[cfg.hookFile]
        ELSE /\ fs[cfg.hookFile].data =
                    fs0[cfg.hookFile].data \o <<"nl", DelimiterText, "nl">> \o finalMsg \o <<"nl">>
             /\ fs[cfg.hookFile] # fs0[cfg.hookFile]

C6_Witness ==
    /\ PersistedAgain
    /\ cfg.forceWrite
    /\ fs0[cfg.hookFile] = File(<<"b", "nl">>)
    /\ fs[cfg.hookFile] = File(<<"b", "nl">>)

\* C7: cleanModelOutput applied to its own result returns that result.
C7_NormalizerIdempotent ==
    Len(norm) >= 3 => norm[3] = norm[2]

\* the response fragments of a body, in arrival order
RECURSIVE FragmentsInOrder(_)
FragmentsInOrder(chunks) ==
    IF chunks = <<>> THEN <<>>
    ELSE Head(chunks).response \o FragmentsInOrder(Tail(chunks))

\* a response with a status below 400 whose JSON objects are all well-formed
WellFormed(r) ==
    /\ r.fault = "none"
    /\ r.status < 400
    /\ \A k \in 1..Len(r.chunks) : r.chunks[k].ok

\* C8: on a response with a status below 400 made of well-formed chunks,
\* callOllama returns no error and the normalizer's result on all the
\* fragments concatenated in arrival order.
C8_Aggregation ==
    (ret.called /\ WellFormed(reply)) =>
        /\ ret.err = "nil"
        /\ ret.text = cleanModelOutput(FragmentsInOrder(reply.chunks))

C8_Witness ==
    /\ ret.called
    /\ reply.status = 399
    /\ reply.chunks = <<Chunk(<<"a">>, TRUE), Chunk(<<"b", "sp">>, FALSE), Chunk(<<"a">>, TRUE)>>
    /\ ret = [called |-> TRUE, text |-> <<"a", "b", "sp", "a">>, err |-> "nil",
              requests |-> 1, body |-> "closed"]

\* the exit code the stage of a failed operation ends the run with
StageCode(op) ==
    CASE op = "probe" -> 1
      [] op \in {"gitDiff", "readFile"} -> 2
      [] op = "summarizer" -> 3
      [] op = "styler" -> 4
      [] op = "hookOpenAppend" -> 5
      [] op = "hookAppendWrite" -> 6
      [] op \in {"hookWriteFileOpen", "hookWriteFileWrite", "hookWriteFileClose"} -> 7

\* C9: a failed run ends with the exit code of the stage that failed (1
\* probe, 2 diff or summary load, 3 summarizer, 4 styling, 5 open for
\* append, 6 append write, 7 create/overwrite write), and a run in which
\* nothing failed ends with exit code 0.
C9_ExitCodeByStage ==
    /\ pc = "failed" => failedOp # "none" /\ exitCode = StageCode(failedOp)
    /\ pc = "done" => failedOp = "none" /\ exitCode = 0

C9_Witness ==
    /\ pc = "failed"
    /\ failedOp = "hookAppendWrite"
    /\ exitCode = 6
    /\ calls.styler = 1

\* the failure categories of the error taxonomy
Category(op) ==
    CASE op = "probe" -> "probe"
      [] op = "gitDiff" -> "subprocess"
      [] op = "readFile" -> "summary load"
      [] op = "summarizer" -> "summarizer exhaustion"
      [] op = "styler" -> "styling"
      [] op \in {"hookOpenAppend", "hookWriteFileOpen"} -> "sink open"
      [] op \in {"hookAppendWrite", "hookWriteFileWrite", "hookWriteFileClose"} -> "sink write"

\* this invocation and the previous one both failed, in different categories
FailedDifferently ==
    /\ pc = "failed"
    /\ prev.ran
    /\ prev.failedOp # "none"
    /\ Category(failedOp) # Category(prev.failedOp)

SharedCode(a, b) ==
    \/ {a, b} = {"gitDiff", "readFile"}
    \/ {a, b} \subseteq {"hookWriteFileOpen", "hookWriteFileWrite", "hookWriteFileClose"}

SaveFailed(l) == \E k \in 1..Len(l) : l[k].op = "saveWrite" /\ l[k].err # "nil"

\* a log without the entries of the save
WithoutSave(l) == SelectSeq(l, LAMBDA e : e.op # "saveWrite")

\* what the environment did to one operation: how it ended and, for the
\* operations that read, the text it gave
Answer(e) ==
    [op |-> e.op, err |-> e.err,
     in |-> IF e.op \in {"readFile", "gitStaged", "gitUnstaged", "summarizer", "styler"}
            THEN e.out ELSE <<>>]

\* two logs in which the environment answered alike as far as both go
SameAnswers(l1, l2) ==
    \A k \in 1..Len(l1) : k <= Len(l2) => Answer(l1[k]) = Answer(l2[k])

\* the run is over
Over == pc \in {"done", "failed"}

\* the previous invocation had a save-path and its save failed; this one is
\* the same invocation without the save-path: the same other flags, a hook
\* file that is there or not as before, and the same answers from the
\* backend, git and the file system
TwinOfFailedSave ==
    /\ Over
    /\ prev.ran
    /\ prev.cfg.saveSummary # ""
    /\ SaveFailed(prev.ops)
    /\ cfg = [prev.cfg EXCEPT !.saveSummary = ""]
    /\ cfg.hookFile # "" => fs0[cfg.hookFile].exists = prev.fs0[cfg.hookFile].exists
    /\ SameAnswers(WithoutSave(prev.ops), ops)

\* C11: a run whose save of the summary failed goes on to the styling stage
\* with the summary it had (it never ends with the save as the failed
\* operation), and it performs the same operations with the same texts,
\* prints the same final message, writes the same to the hook file and
\* ends with the same exit code as the same run without a save-path.
C11_SaveFailureNonFatal ==
    /\ SaveFailed(ops) =>
          /\ failedOp # "saveWrite"
          /\ pc = "style" \/ StyledWith(attempts[MaxAttempts].text)
    /\ TwinOfFailedSave =>
          /\ WithoutSave(prev.ops) = ops
          /\ prev.finalMsg = finalMsg
          /\ prev.exitCode = exitCode
          /\ prev.failedOp = failedOp
          /\ (cfg.hookFile # "" /\ fs0[cfg.hookFile] = prev.fs0[cfg.hookFile]) =>
                fs[cfg.hookFile] = fs0[cfg.hookFile]

C11_Witness ==
    /\ TwinOfFailedSave
    /\ cfg.hookFile # ""
    /\ ~cfg.forceWrite
    /\ prev.persisted
    /\ pc = "done"
    /\ Len(ops) = 10
    /\ ops[Len(ops) - 1].out = hookSuggestion(finalMsg)

\* the positions in the log of the operation op
Positions(l, op) == {k \in 1..Len(l) : l[k].op = op}

\* C12: with a save-path, in a run that has a summary (from the summarizer
\* or from the load-path) a write of that summary to the save-path is
\* attempted before the styling call, and when the write succeeded the file
\* holds exactly the summary embedded in the styling prompt.
C12_SavePersistence ==
    (cfg.saveSummary # "" /\ stylePrompt.set) =>
        /\ \E k \in Positions(ops, "saveWrite") :
              /\ ops[k].out = stylePrompt.sum
              /\ \A j \in Positions(ops, "styler") : k < j
              /\ ops[k].err = "nil" => fs[cfg.saveSummary] = File(stylePrompt.sum)

\* C12, in the runs that do not load the summary
C12_SavedWhenSummarized ==
    cfg.loadSummary = "" => C12_SavePersistence

\* the stage of the pipeline an external operation belongs to, 0 for the
\* operations that are not part of a stage
Stage(op) ==
    CASE op = "probe" -> 1
      [] op \in {"gitStaged", "gitUnstaged"} -> 2
      [] op = "summarizer" -> 3
      [] op = "styler" -> 4
      [] op \in {"hookOpen", "hookWrite", "hookClose", "hookWriteFile"} -> 5
      [] OTHER -> 0

\* the operations of the stages, in the order the run went through them
Staged(l) == SelectSeq(l, LAMBDA e : Stage(e.op) > 0)

\* the operation at k is the last of its stage and the stage succeeded
StageCompleted(l, k) ==
    /\ l[k].err = "nil"
    /\ l[k].op = "summarizer" => Cardinality(Positions(l, "summarizer")) = MaxAttempts

\* C13: without a load-path the external operations occur one after the
\* other in the order probe, diff acquisition, summarizer attempts, styling
\* call, hook-file write: the first is the probe, there is no other probe,
\* an operation of the next stage follows only an operation that completed
\* its stage successfully, no stage is skipped or gone back to, and after a
\* failed operation nothing follows but the next summarizer attempt.
C13_StageOrder ==
    cfg.loadSummary = "" =>
        LET l == Staged(ops) IN
        /\ l # <<>> => l[1].op = "probe"
        /\ Cardinality(Positions(ops, "probe")) <= 1
        /\ Cardinality(Positions(ops, "gitStaged")) <= 1
        /\ Cardinality(Positions(ops, "gitUnstaged")) <= 1
        /\ Cardinality(Positions(ops, "summarizer")) <= MaxAttempts
        /\ Cardinality(Positions(ops, "styler")) <= 1
        /\ \A k \in 1..(Len(l) - 1) :
              /\ Stage(l[k + 1].op) \in {Stage(l[k].op), Stage(l[k].op) + 1}
              /\ Stage(l[k + 1].op) = Stage(l[k].op) + 1 => StageCompleted(l, k)
              /\ l[k].err # "nil" => l[k].op = "summarizer" /\ l[k + 1].op = "summarizer"

C13_Witness ==
    /\ cfg.loadSummary = ""
    /\ pc = "done"
    /\ [k \in 1..Len(ops) |-> ops[k].op] =
          <<"probe", "gitStaged", "gitUnstaged", "summarizer", "summarizer", "saveWrite",
            "styler", "println", "hookOpen", "hookWrite", "hookClose">>
    /\ ops[4].err = "transport"

\* the operations that make an HTTP request
HttpOps == {"probe", "summarizer", "styler"}

\* every response body obtained was closed when the function that obtained
\* it returned
BodiesClosed ==
    \A k \in 1..Len(ops) :
        ops[k].op \in HttpOps =>
            IF ops[k].err \in {"transport", "unreachable"}
            THEN ops[k].res = "none"
            ELSE ops[k].res = "closed"

\* C14: every response body obtained by callOllama or checkOllama is closed
\* when the function returns, whether it returns a result, a status error
\* or a decode error, and no run ends, in success or in failure, with the
\* hook-file handle opened for append not closed.
C14_ResourcesReleased ==
    /\ BodiesClosed
    /\ Over => hookHandle # "open"

\* the operations on the hook file
HookOps == {"hookOpen", "hookWrite", "hookClose", "hookWriteFile"}

\* an open, write or close of the hook file failed (kind: which of them)
HookFailedWith(l, kind) ==
    \E k \in 1..Len(l) : l[k].op \in HookOps /\ l[k].err = kind

HookFailed(l) == \E kind \in {"open", "write", "close"} : HookFailedWith(l, kind)

\* C15: a run in which an open, a write or a close of the hook file failed
\* ends failed with a non-zero exit code, never with exit code 0, and a run
\* that failed at an open and a run that failed at a write end with
\* different exit codes.
C15_SinkFailuresFatal ==
    /\ (Over /\ HookFailed(ops)) => pc = "failed" /\ exitCode # ExitOK
    /\ (Over /\ prev.ran /\ HookFailedWith(prev.ops, "open") /\ HookFailedWith(ops, "write")) =>
            exitCode # prev.exitCode

\* C15, for the failures of an open or a write only
C15_OpenAndWriteFatal ==
    (Over /\ (HookFailedWith(ops, "open") \/ HookFailedWith(ops, "write"))) =>
        pc = "failed" /\ exitCode \in {ExitHookOpen, ExitHookAppend, ExitHookWrite}

\* C16: when the request fails in transport, the status is 400 or more, or
\* some JSON object of the body is malformed, wherever it stands in the
\* stream, callOllama returns an error of that kind and the empty text,
\* never the fragments decoded so far; and whatever the backend does, one
\* call makes one HTTP request.
C16_FailureSurface ==
    ret.called =>
        /\ ret.requests = 1
        /\ reply.fault # "none" => ret.err = "transport" /\ ret.text = <<>>
        /\ (reply.fault = "none" /\ reply.status >= 400) => ret.err = "status" /\ ret.text = <<>>
        /\ (reply.fault = "none" /\ reply.status < 400 /\ ~WellFormed(reply)) =>
              ret.err = "decode" /\ ret.text = <<>>

C16_Witness ==
    /\ ret.called
    /\ reply.status = 200
    /\ reply.chunks = <<Chunk(<<"a">>, FALSE), Chunk(<<"b", "sp">>, TRUE), BadChunk>>
    /\ ret.err = "decode"
    /\ ret.text = <<>>
    /\ ret.requests = 1
    /\ ret.body = "closed"

\* s is wrapped in a pair of double or of single quotes
Wrapped(s) ==
    /\ Len(s) >= 2
    /\ s[1] \in {"dq", "sq"}
    /\ s[Len(s)] = s[1]

\* the content of a quoted literal read by the grammar of the language: no
\* newline and no bare quote q, a backslash only before an escape letter, a
\* backslash or q; [ok, val]
RECURSIVE Unescape(_, _)
Unescape(inner, q) ==
    IF inner = <<>> THEN [ok |-> TRUE, val |-> <<>>]
    ELSE IF Head(inner) \in {"nl", q} THEN [ok |-> FALSE, val |-> <<>>]
    ELSE IF Head(inner) # "bs"
    THEN LET r == Unescape(Tail(inner), q) IN
         [ok |-> r.ok, val |-> <<Head(inner)>> \o r.val]
    ELSE IF Len(inner) < 2 \/ inner[2] \notin EscapeLetters \cup {"bs", q}
    THEN [ok |-> FALSE, val |-> <<>>]
    ELSE LET r == Unescape(SubSeq(inner, 3, Len(inner)), q)
             c == IF inner[2] \in EscapeLetters THEN EscapeOf(inner[2]) ELSE inner[2]
         IN  [ok |-> r.ok, val |-> <<c>> \o r.val]

\* the content of the wrapped text s
Content(s) == Unescape(SubSeq(s, 2, Len(s) - 1), s[1])

\* s is a valid quoted literal: a string in double quotes, or one character
\* in single quotes
ValidLiteral(s) ==
    /\ Wrapped(s)
    /\ Content(s).ok
    /\ s[1] = "sq" => Len(Content(s).val) = 1

\* what cleanModelOutput does after the quotes: fences, stray markers, CRLF, trim
AfterQuotes(s) ==
    TrimSpace(ReplaceAll(ReplaceAll(ReplaceFences(s, 1), Fence, <<>>),
                         <<"cr", "nl">>, <<"nl">>))

\* the bytes a text is made of
Bytes ==
    {"sp", "nl", "cr", "tab", "dq", "sq", "bs", "bt", "bel", "bksp", "ff", "vt",
     "n", "h", "e", "l", "o", "w", "r", "d"}

\* C17: when the trimmed input is a valid quoted literal the result is what
\* the rest of the normalizer makes of its unescaped content; when the
\* trimmed input is wrapped in quotes and unquoting fails the result is what
\* the rest of the normalizer makes of the text as it is; and for every
\* input the normalizer returns a text.
C17_UnquoteTotal ==
    Len(norm) >= 2 =>
        LET s1 == TrimSpace(norm[1]) IN
        /\ ValidLiteral(s1) => norm[2] = AfterQuotes(Content(s1).val)
        /\ (Wrapped(s1) /\ ~Unquote(s1).ok) => norm[2] = AfterQuotes(s1)
        /\ norm[2] \in Seq(Bytes)

C17_Witness ==
    /\ Len(norm) >= 2
    /\ norm[1] = HelloWorld
    /\ norm[2] = <<"h", "e", "l", "l", "o", "nl", "w", "o", "r", "l", "d">>

\* the texts on which strconv.Unquote succeeds are the valid literals and ''
UnquoteAgreesWithGrammar ==
    Len(norm) >= 1 =>
        LET s1 == TrimSpace(norm[1]) IN
        Wrapped(s1) =>
            /\ Unquote(s1).ok <=> (ValidLiteral(s1) \/ s1 = <<"sq", "sq">>)
            /\ ValidLiteral(s1) => Unquote(s1).val = Content(s1).val

\* pat occurs in s
Contains(s, pat) == IndexFrom(s, 1, pat) # 0

CRLF == <<"cr", "nl">>

\* s is free of backticks from i to j
NoTick(s, i, j) == \A k \in i..j : s[k] # "bt"

\* s holds one fenced block and no other backtick: [ok, text], text being s
\* with the block replaced by its content
OneBlock(s) ==
    LET a == IndexFrom(s, 1, <<"bt">>)
        m == IF a = 0 THEN [ok |-> FALSE] ELSE FenceMatchAt(s, a)
    IN  IF a # 0 /\ m.ok /\ NoTick(s, m.from, m.to) /\ NoTick(s, m.next, Len(s))
        THEN [ok |-> TRUE,
              text |-> SubSeq(s, 1, a - 1) \o SubSeq(s, m.from, m.to) \o
                       SubSeq(s, m.next, Len(s))]
        ELSE [ok |-> FALSE, text |-> <<>>]

\* the result holds no triple-backtick marker, and a text that is not
\* quoted and holds one fenced block comes out as the text with the block
\* replaced by its content, trimmed and with its line endings normalized
FencesRemoved ==
    Len(norm) >= 2 =>
        LET s1 == TrimSpace(norm[1]) IN
        /\ ~Contains(norm[2], Fence)
        /\ (~Wrapped(s1) /\ OneBlock(s1).ok) =>
              norm[2] = TrimSpace(ReplaceAll(OneBlock(s1).text, CRLF, <<"nl">>))

\* C18: every fenced block of the input is replaced by its content, and
\* the result of the normalizer holds no triple-backtick marker and no
\* carriage return followed by a newline.
C18_FencesAndLineEndings ==
    /\ FencesRemoved
    /\ Len(norm) >= 2 => ~Contains(norm[2], CRLF)

\* the label a line starts with after its leading white space, <<>> if none
LabelOf(line) ==
    LET t == ToLower(TrimSpace(line)) IN
    IF HasPrefix(t, TitleLabel) THEN TitleLabel
    ELSE IF HasPrefix(t, BodyLabel) THEN BodyLabel
    ELSE <<>>

\* the line without its label and without the white space around what is left
Unlabelled(line) ==
    LET t == TrimSpace(line) IN
    TrimSpace(SubSeq(t, Len(LabelOf(line)) + 1, Len(t)))

\* the text the styling call returned, once it returned without error
Styled == ops[CHOOSE k \in Positions(ops, "styler") : TRUE].out

Entry(op) == ops[CHOOSE k \in Positions(ops, op) : TRUE]

\* the unstaged-diff subprocess was started
FellBack == Positions(ops, "gitUnstaged") # {}

\* the run went on to the summarizer
Summarizing == pc = "summarize" \/ calls.summarizer >= 1

\* C20: the unstaged-diff subprocess is started exactly when the
\* staged-diff subprocess succeeded with an output that is empty after
\* trimming; when either subprocess exits non-zero there is no diff text and
\* the run ends with the diff failure; otherwise the diff is the output of
\* the staged diff when that is not empty and of the unstaged diff when it
\* is, and the run goes on to the summarizer, also when both are empty.
C20_DiffFallback ==
    Positions(ops, "gitStaged") # {} =>
        LET staged == Entry("gitStaged") IN
        /\ FellBack <=> (staged.err = "nil" /\ TrimSpace(staged.out) = <<>>)
        /\ staged.err # "nil" \/ (FellBack /\ Entry("gitUnstaged").err # "nil") =>
              /\ diff = <<>>
              /\ pc = "failed"
              /\ failedOp = "gitDiff"
              /\ calls.summarizer = 0
        /\ (staged.err = "nil" /\ ~FellBack) =>
              /\ diff = staged.out
              /\ Summarizing
        /\ (FellBack /\ Entry("gitUnstaged").err = "nil") =>
              /\ diff = Entry("gitUnstaged").out
              /\ Summarizing

C20_Witness ==
    /\ Positions(ops, "gitStaged") # {}
    /\ Entry("gitStaged") = Op("gitStaged", "nil", <<"nl">>, "none")
    /\ FellBack
    /\ Entry("gitUnstaged") = Op("gitUnstaged", "nil", <<>>, "none")
    /\ diff = <<>>
    /\ calls.summarizer = MaxAttempts
    /\ pc = "done"

\* C21: without a hook path the run makes no os.Stat, no open and no write
\* for a commit-message file, whatever its outcome, and leaves the file as
\* it found it; and once the styling call succeeded the run has printed the
\* final message and ended with exit code 0.
C21_NoHookNoSink ==
    cfg.hookFile = "" =>
        /\ calls.hookStat = 0
        /\ calls.hookOpen = 0
        /\ calls.hookWrite = 0
        /\ \A k \in 1..Len(ops) : ops[k].op \notin HookOps
        /\ hookHandle = "none"
        /\ fs[HookPath] = fs0[HookPath]
        /\ pc # "sink"
        /\ (Positions(ops, "styler") # {} /\ Entry("styler").err = "nil") =>
              /\ pc = "done"
              /\ exitCode = ExitOK
              /\ stdout = <<finalMsg>>
              /\ ops[Len(ops)] = Op("println", "nil", finalMsg, "none")

C21_Witness ==
    /\ cfg.hookFile = ""
    /\ cfg.loadSummary = ""
    /\ fs0[HookPath] = File(<<"a">>)
    /\ fs[HookPath] = File(<<"a">>)
    /\ pc = "done"
    /\ stdout = <<<<"b">>>>

\* the run ended with the failure of the summarizer stage
SummarizerFailed == pc = "failed" /\ failedOp = "summarizer"

\* C22: when every summarizer attempt failed, the error the run reports
\* with its failure (lastErr at the os.Exit) is the error the last attempt
\* returned, whatever error the first attempt returned.
C22_LastErrorReported ==
    SummarizerFailed =>
        /\ LoopOver
        /\ lastErr # "nil"
        /\ lastErr = attempts[MaxAttempts].err
        /\ lastErr = ops[Len(ops)].err

C22_Witness ==
    /\ SummarizerFailed
    /\ attempts[1].err = "transport"
    /\ attempts[2].err = "status"
    /\ lastErr = "status"
    /\ exitCode = ExitSummarizer

\* the operations whose failure ends the run with the failure op
OpsOf(op) ==
    CASE op = "gitDiff" -> {"gitStaged", "gitUnstaged"}
      [] OTHER -> {op}

\* the run failed before or in the styling stage
FailedEarly == pc = "failed" /\ exitCode \in 1..4

\* C23: a run that fails at the probe, the diff, the summary load, the
\* summarizer or the styling call has written nothing to standard output,
\* has made no os.Stat, open or write for the hook file and leaves it as it
\* found it, and the failed operation is the last one it made.
C23_NoOutputBeforeStyled ==
    FailedEarly =>
        /\ stdout = <<>>
        /\ Positions(ops, "println") = {}
        /\ fs[HookPath] = fs0[HookPath]
        /\ calls.hookStat = 0 /\ calls.hookOpen = 0 /\ calls.hookWrite = 0
        /\ hookHandle = "none"
        /\ ops # <<>>
        /\ ops[Len(ops)].err # "nil"
        /\ ops[Len(ops)].op \in OpsOf(failedOp)
        /\ failedOp \in {"probe", "gitDiff", "readFile", "summarizer", "styler"}

C23_Witness ==
    /\ FailedEarly
    /\ exitCode = ExitStyle
    /\ cfg.hookFile # ""
    /\ fs0[HookPath] = File(<<"a">>)
    /\ Entry("styler").err = "decode"
    /\ calls.saveWrite = 1

\* the summarizer stage was entered and left
StageLeft == calls.summarizer > 0 /\ pc # "summarize"

FailedInSink == pc = "failed" /\ exitCode \in 5..7

\* the final message was printed once, before every operation on the hook file
PrintedBeforeSink ==
    /\ stdout = <<finalMsg>>
    /\ Cardinality(Positions(ops, "println")) = 1
    /\ Entry("println").out = finalMsg
    /\ \A k \in 1..Len(ops) :
          ops[k].op \in HookOps => \A j \in Positions(ops, "println") : j < k

\* C25: in a run that fails in the message sink the final message has been
\* written to standard output exactly once, and in every run that comes to
\* the hook file, the successful ones included, the message is printed
\* before the first operation on the file.
C25_EmissionBeforeSink ==
    /\ FailedInSink => PrintedBeforeSink
    /\ (pc = "sink" \/ Persisted) => PrintedBeforeSink
    /\ (\E k \in 1..Len(ops) : ops[k].op \in HookOps) => PrintedBeforeSink

C25_Witness ==
    /\ FailedInSink
    /\ exitCode = ExitHookAppend
    /\ stdout = <<<<"b">>>>
    /\ fs[HookPath] = fs0[HookPath]
    /\ ops[Len(ops)].op = "hookWrite"

\* the previous invocation (run A) summarized and saved its summary to a
\* path; this one (run B) loads that path, which nothing touched in
\* between, and has built its styling prompt
RoundTrip ==
    /\ prev.ran
    /\ prev.cfg.loadSummary = ""
    /\ prev.cfg.saveSummary # ""
    /\ \E k \in Positions(prev.ops, "saveWrite") : prev.ops[k].err = "nil"
    /\ prev.stylePrompt.set
    /\ cfg.loadSummary = prev.cfg.saveSummary
    /\ stylePrompt.set

\* C26: when run A saved its summary to a path and run B loads that path,
\* the summary in run B's styling prompt is, byte for byte, the summary in
\* run A's styling prompt, and run B makes one request to the backend, the
\* styling call.
C26_SaveLoadRoundTrip ==
    RoundTrip =>
        /\ stylePrompt.sum = prev.stylePrompt.sum
        /\ calls.probe = 0
        /\ calls.summarizer = 0
        /\ calls.styler = 1
        /\ Cardinality({k \in 1..Len(ops) : ops[k].op \in HttpOps}) = 1

C26_Witness ==
    /\ RoundTrip
    /\ prev.fs0[SummaryPath] = File(<<"sp", "n", "nl">>)
    /\ fs0[SummaryPath] = File(<<"n">>)
    /\ stylePrompt.sum = <<"n">>
    /\ pc = "done"

\* how far main has come
Progress(p) ==
    CASE p = "start" -> 0
      [] p = "diff" -> 1
      [] p = "summarize" -> 2
      [] p = "save" -> 3
      [] p = "style" -> 4
      [] p = "sink" -> 5
      [] p \in {"done", "failed"} -> 6

\* the run is in at most one final state, with the exit code of that state
OneFinalState ==
    /\ pc = "done" => exitCode = 0
    /\ pc = "failed" => exitCode \in 1..7

\* the calls of the run so far are within the bounds
CallsBounded ==
    /\ calls.probe <= 1
    /\ calls.gitStaged + calls.gitUnstaged <= 2
    /\ calls.summarizer <= 2
    /\ calls.styler <= 1
    /\ calls.summarizer + calls.styler <= 3
    /\ calls.hookWrite <= 1
    /\ Cardinality({k \in 1..Len(ops) : ops[k].op \in {"hookWrite", "hookWriteFile"}}) <= 1

\* a step goes forward: to a later stage, or to the next attempt of the
\* summarizer stage, and out of a final state not at all
Forward ==
    /\ Progress(pc') >= Progress(pc)
    /\ Progress(pc') = Progress(pc) => pc = "summarize" /\ attempt' = attempt + 1
    /\ ~Over

\* C27: when every external call returns, every run ends, done with exit
\* code 0 or failed with an exit code from 1 to 7, never both; on the way it
\* makes at most 1 probe, 2 diff subprocesses, 2 summarizer calls and 1
\* styling call, and 1 write of the hook file, and it never goes back to a
\* stage it has left.
C27_BoundedTermination ==
    /\ <>Over
    /\ [](OneFinalState /\ CallsBounded)
    /\ [][Forward]_vars

C27_Witness ==
    /\ pc = "done"
    /\ exitCode = 0
    /\ calls.probe = 1
    /\ calls.gitStaged + calls.gitUnstaged = 2
    /\ calls.summarizer + calls.styler = 3
    /\ calls.hookWrite = 1

====
